---- MODULE Spec2Model ----
(***************************************************************************)
(* Model of AeroSentry.ino: the cooperative loop() with its three timed    *)
(* tasks, the metric derivation, the rolling history buffer, the chart     *)
(* auto-range, the pressure forecast and the LED bar.                      *)
(*                                                                         *)
(* Number representation                                                   *)
(*   unsigned long   a pair <<hi, lo>> of 16-bit limbs (32 bits in all);   *)
(*                   arithmetic is modulo 2^32 as on the ESP32.            *)
(*   temperature     integer multiples of 1/TempScale degrees Celsius.     *)
(*   pressure        integer multiples of 1/PresScale hPa.                 *)
(*   gas resistance  integer multiples of 1/GasScale kOhm (= ohms).        *)
(* Floating-point rounding below these resolutions is not modelled.        *)
(***************************************************************************)
EXTENDS Integers, Naturals, Sequences, FiniteSets, TLC

VARIABLES
  phase,            \* "boot" before setup(), "wifi" in its wait loop, "sensor" at
                    \* bme.begin(), "loop" while loop() runs, "halted" in while(1)
  wifi,             \* WiFi.status() == WL_CONNECTED
  now,              \* the value millis() returns (32-bit unsigned)
  lastUpdate, lastGraphUpdate, lastClockUpdate,
  lastTemp, lastHum, lastPres, lastGas,
  pressureBaseline, weatherStatus,
  tempHistory,
  leds,             \* digitalWrite level of each of the numLeds pins
  builtinLed,       \* digitalWrite level of LED_BUILTIN
  iaq,              \* loop()'s local: the last computed air-quality percent
  minVal, maxVal,   \* drawGraph()'s locals after its range computation
  mapRun,           \* in_max - in_min of drawGraph()'s map() calls
  polls,            \* number of loop() iterations so far
  fired,            \* tasks whose body ran in the last iteration, in order
  elapsed,          \* per task: millis() - last fire time, as its if evaluated it
  readResult,       \* "none" | "ok" | "fail": bme.performReading() in the last iteration
  reads,            \* number of bme.performReading() calls in the last iteration
  pushed,           \* values handed to addGraphPoint in the last iteration
  clockDrawn,       \* updateClock() drew the time in the last iteration
  prevGas, prevIaq, \* the previous argument and result of mapGasToPercent
  pushLog,          \* every value handed to addGraphPoint so far
  presLog,          \* every pressure handed to updateForecast so far
  seeds,            \* how often updateForecast took pressureBaseline = p
  retry,            \* setup()'s local: rounds of the WiFi wait so far
  sensor,           \* "unknown" | "ok" | "fail": what bme.begin() returned
  since,            \* per task: the milliseconds that really passed since its last fire
  realElapsed       \* per task: since, as it was when the task's if was evaluated

vars == <<phase, wifi, now, lastUpdate, lastGraphUpdate, lastClockUpdate,
          lastTemp, lastHum, lastPres, lastGas, pressureBaseline, weatherStatus,
          tempHistory, leds, builtinLed, iaq, minVal, maxVal, mapRun,
          polls, fired, elapsed, readResult, reads, pushed, clockDrawn,
          prevGas, prevIaq, pushLog,
          presLog,
          seeds,
          retry,
          sensor, since, realElapsed>>

----------------------------------------------------------------------------
(* Program constants *)

GRAPH_INTERVAL == 300000
CLOCK_INTERVAL == 1000
SAMPLE_INTERVAL == 3000
MAX_HISTORY == 40
numLeds == 8
WIFI_RETRIES == 20
WIFI_RETRY_DELAY == 500

TempScale == 200
PresScale == 10000
GasScale == 1000

----------------------------------------------------------------------------
(* Bounds of the model *)

MaxPolls == 2
MaxPushes == 42
MaxSamples == 3

----------------------------------------------------------------------------
(* unsigned long: 32 bits as two 16-bit limbs *)

Limb == 65536

U32(n) == <<(n \div Limb) % Limb, n % Limb>>

U32Add(a, b) ==
  LET lo == a[2] + b[2]
      hi == a[1] + b[1] + (lo \div Limb)
  IN  <<hi % Limb, lo % Limb>>

\* subtraction that stops at 0 instead of wrapping
U32SubSaturating(a, b) ==
  IF a[1] > b[1] \/ (a[1] = b[1] /\ a[2] >= b[2])
  THEN LET lo == a[2] - b[2]
           borrow == IF lo < 0 THEN 1 ELSE 0
       IN  <<a[1] - b[1] - borrow, (lo + Limb) % Limb>>
  ELSE <<0, 0>>

U32Sub(a, b) ==
  LET lo == a[2] - b[2]
      borrow == IF lo < 0 THEN 1 ELSE 0
      hi == a[1] - b[1] - borrow
  IN  <<hi % Limb, lo % Limb>>

U32Gt(a, b) == a[1] > b[1] \/ (a[1] = b[1] /\ a[2] > b[2])

U32Ge(a, b) == a = b \/ U32Gt(a, b)

\* a % m for a modulus m < 2^15
U32Mod(a, m) == ((a[1] % m) * (Limb % m) + a[2]) % m

\* C integer division truncates toward zero
TruncDiv(a, b) ==
  IF (a >= 0) = (b > 0) THEN a \div b
  ELSE IF a % b = 0 THEN a \div b ELSE (a \div b) + 1

\* Arduino map(x, in_min, in_max, out_min, out_max) on long
map(x, in_min, in_max, out_min, out_max) ==
  TruncDiv((x - in_min) * (out_max - out_min), in_max - in_min) + out_min

TaskOrder == <<"clock", "sample", "chart">>

----------------------------------------------------------------------------
(* Pure helpers of the sketch *)

\* mapGasToPercent without the two clamping statements
mapGasToPercentNoClamp(gas_kohm) ==
  LET clean == 150 * GasScale
      bad == 5 * GasScale
  IN  TruncDiv((clean - gas_kohm) * 100, clean - bad)

\* mapGasToPercent rounding to nearest instead of the (int) cast
mapGasToPercentRounded(gas_kohm) ==
  LET clean == 150 * GasScale
      bad == 5 * GasScale
      g1 == IF gas_kohm > clean THEN clean ELSE gas_kohm
      g2 == IF g1 < bad THEN bad ELSE g1
  IN  (2 * (clean - g2) * 100 + (clean - bad)) \div (2 * (clean - bad))

mapGasToPercent(gas_kohm) ==
  LET clean == 150 * GasScale
      bad == 5 * GasScale
      g1 == IF gas_kohm > clean THEN clean ELSE gas_kohm
      g2 == IF g1 < bad THEN bad ELSE g1
  IN  TruncDiv((clean - g2) * 100, clean - bad)

\* updateLedBar scaling to numLeds in place of numLeds + 1
updateLedBarEightSteps(percent, m) ==
  LET p1 == IF percent < 0 THEN 0 ELSE percent
      p == IF p1 > 100 THEN 100 ELSE p1
      ledsOn == map(p, 0, 100, 0, numLeds)
  IN  IF p > 90 /\ U32Mod(m, 400) < 200
      THEN [i \in 1..numLeds |-> FALSE]
      ELSE [i \in 1..numLeds |-> (i - 1) < ledsOn]

\* the pin levels updateLedBar(percent) writes when millis() returns m;
\* (m / 200) % 2 == 0 exactly when m % 400 < 200
updateLedBar(percent, m) ==
  LET p1 == IF percent < 0 THEN 0 ELSE percent
      p == IF p1 > 100 THEN 100 ELSE p1
      ledsOn == map(p, 0, 100, 0, numLeds + 1)
  IN  IF p > 90 /\ U32Mod(m, 400) < 200
      THEN [i \in 1..numLeds |-> FALSE]
      ELSE [i \in 1..numLeds |-> (i - 1) < ledsOn]

\* addGraphPoint that overwrites the tail without shifting
addGraphPointNoShift(hist, val) == [hist EXCEPT ![MAX_HISTORY] = val]

\* tempHistory[i] is hist[i + 1]
addGraphPoint(hist, val) ==
  [i \in 1..MAX_HISTORY |-> IF i < MAX_HISTORY THEN hist[i + 1] ELSE val]

RECURSIVE ScanMin(_, _, _)
ScanMin(hist, i, m) ==
  IF i > Len(hist) THEN m
  ELSE ScanMin(hist, i + 1,
               IF hist[i] # 0 /\ hist[i] < m THEN hist[i] ELSE m)

RECURSIVE ScanMax(_, _, _)
ScanMax(hist, i, m) ==
  IF i > Len(hist) THEN m
  ELSE ScanMax(hist, i + 1,
               IF hist[i] # 0 /\ hist[i] > m THEN hist[i] ELSE m)

\* drawGraph's range without the widening branch
graphRangeNoWiden(hist) ==
  LET mn == ScanMin(hist, 1, 100 * TempScale)
      mx == ScanMax(hist, 1, (0 - 100) * TempScale)
  IN  [minVal |-> mn - (TempScale \div 5), maxVal |-> mx + (TempScale \div 5)]

\* the (minVal, maxVal) drawGraph computes before drawing
graphRange(hist) ==
  LET mn == ScanMin(hist, 1, 100 * TempScale)
      mx == ScanMax(hist, 1, (0 - 100) * TempScale)
  IN  IF mx - mn < TempScale
      THEN LET mid == (mx + mn) \div 2
           IN  [minVal |-> mid - TempScale, maxVal |-> mid + TempScale]
      ELSE [minVal |-> mn - (TempScale \div 5), maxVal |-> mx + (TempScale \div 5)]

\* (long)(maxVal*10) - (long)(minVal*10): the divisor inside map()
graphMapRun(rng) ==
  TruncDiv(rng.maxVal * 10, TempScale) - TruncDiv(rng.minVal * 10, TempScale)

\* updateForecast taking the difference after the baseline update
updateForecastPostUpdate(baseline, p) ==
  LET b0 == IF baseline = 0 THEN p ELSE baseline
      b1 == (95 * b0 + 5 * p + 50) \div 100
      diff == p - b1
      threshold == (2 * PresScale) \div 10
  IN  [pressureBaseline |-> b1,
       weatherStatus |-> IF diff > threshold THEN "Growing (Sun)"
                         ELSE IF diff < 0 - threshold THEN "Falling (Rain)"
                         ELSE "Stable",
       seeded |-> (baseline = 0)]

\* updateForecast without its first statement
updateForecastNoSeed(baseline, p) ==
  LET b0 == baseline
      diff == p - b0
      b1 == (95 * b0 + 5 * p + 50) \div 100
      threshold == (2 * PresScale) \div 10
  IN  [pressureBaseline |-> b1,
       weatherStatus |-> IF diff > threshold THEN "Growing (Sun)"
                         ELSE IF diff < 0 - threshold THEN "Falling (Rain)"
                         ELSE "Stable",
       seeded |-> FALSE]

\* updateForecast with the weight 0.5 in place of 0.05
updateForecastHeavy(baseline, p) ==
  LET b0 == IF baseline = 0 THEN p ELSE baseline
      diff == p - b0
      b1 == (95 * b0 + 50 * p + 50) \div 100
      threshold == (2 * PresScale) \div 10
  IN  [pressureBaseline |-> b1,
       weatherStatus |-> IF diff > threshold THEN "Growing (Sun)"
                         ELSE IF diff < 0 - threshold THEN "Falling (Rain)"
                         ELSE "Stable",
       seeded |-> (baseline = 0)]

\* updateForecast(p): the new baseline and status, and whether the first
\* statement assigned p to the baseline; 0.95 * b + 0.05 * p is rounded to
\* the nearest 1/PresScale
updateForecast(baseline, p) ==
  LET b0 == IF baseline = 0 THEN p ELSE baseline
      diff == p - b0
      b1 == (95 * b0 + 5 * p + 50) \div 100
      threshold == (2 * PresScale) \div 10
  IN  [pressureBaseline |-> b1,
       weatherStatus |-> IF diff > threshold THEN "Growing (Sun)"
                         ELSE IF diff < 0 - threshold THEN "Falling (Rain)"
                         ELSE "Stable",
       seeded |-> (baseline = 0)]

----------------------------------------------------------------------------
(* Inputs from the outside world *)

\* milliseconds that pass between two iterations of loop()
IdleDelays == {0, 1000, 3000, 300000}

\* milliseconds that pass between the millis() of an if and the millis()
\* of the assignment inside it (the same for the three ifs of one iteration)
SetDelays == {0, 1}

\* milliseconds bme.performReading() takes
ReadDurations == {200}

\* delay(500) rounds after which WiFi.status() becomes WL_CONNECTED
\* (WIFI_RETRIES + 1: not within the wait)
ConnectAfter == {0, 7, WIFI_RETRIES, WIFI_RETRIES + 1}

\* what bme.performReading() can leave in the sensor object:
\* temperature in 1/100 degree C, humidity in %, pressure in Pa,
\* gas_resistance in ohm
Readings ==
  { [temperature |-> 2150, humidity |-> 45, pressure |-> 100000, gas_resistance |-> 50000],
    [temperature |-> 2300, humidity |-> 50, pressure |-> 100050, gas_resistance |-> 8000],
    [temperature |-> 0,    humidity |-> 60, pressure |->  99950, gas_resistance |-> 149000] }

\* the sensor object when performReading() fails: its fields are not used
NoReading ==
  [temperature |-> 0, humidity |-> 0, pressure |-> 0, gas_resistance |-> 0]

\* iaq before mapGasToPercent has been called
NoIaq == 0 - 1

----------------------------------------------------------------------------
(* loop(), statement by statement, on a record of the program's state *)

St ==
  [now |-> now, lastUpdate |-> lastUpdate, lastGraphUpdate |-> lastGraphUpdate,
   lastClockUpdate |-> lastClockUpdate,
   lastTemp |-> lastTemp, lastHum |-> lastHum, lastPres |-> lastPres,
   lastGas |-> lastGas,
   pressureBaseline |-> pressureBaseline, weatherStatus |-> weatherStatus,
   tempHistory |-> tempHistory, leds |-> leds, builtinLed |-> builtinLed,
   iaq |-> iaq, minVal |-> minVal, maxVal |-> maxVal, mapRun |-> mapRun,
   fired |-> fired, elapsed |-> elapsed, readResult |-> readResult,
   reads |-> reads, pushed |-> pushed, clockDrawn |-> clockDrawn,
   pushLog |-> pushLog,
   presLog |-> presLog,
   seeds |-> seeds, since |-> since, realElapsed |-> realElapsed]

\* time passes
Tick(s, d) ==
  [s EXCEPT !.now = U32Add(@, U32(d)),
            !.since = [t \in DOMAIN @ |-> @[t] + d]]

\* the start of an iteration: nothing has run yet
PollStart(s, idle) ==
  [Tick(s, idle) EXCEPT !.fired = <<>>, !.readResult = "none", !.reads = 0,
                        !.pushed = <<>>, !.clockDrawn = FALSE]

\* a task's if with >= in place of >
DueGe(e, period) == U32Ge(e, U32(period))

\* millis() - last > period
Due(e, period) == U32Gt(e, U32(period))

\* updateClock(): draws nothing when getLocalTime fails
updateClock(s, timeOk) == [s EXCEPT !.clockDrawn = timeOk]

\* ClockStep advancing the last fire time by one period
ClockStepCatchUp(s, dSet, timeOk) ==
  LET e == U32Sub(s.now, s.lastClockUpdate)
      s0 == [s EXCEPT !.elapsed.clock = e,
                      !.realElapsed.clock = s.since.clock]
  IN  IF Due(e, CLOCK_INTERVAL)
      THEN LET s1 == Tick(s0, dSet)
           IN  updateClock([s1 EXCEPT
                 !.lastClockUpdate = U32Add(@, U32(CLOCK_INTERVAL)),
                 !.fired = Append(@, "clock")], timeOk)
      ELSE s0

ClockStep(s, dSet, timeOk) ==
  LET e == U32Sub(s.now, s.lastClockUpdate)
      s0 == [s EXCEPT !.elapsed.clock = e,
                      !.realElapsed.clock = s.since.clock]
  IN  IF Due(e, CLOCK_INTERVAL)
      THEN LET s1 == Tick(s0, dSet)
           IN  updateClock([s1 EXCEPT !.lastClockUpdate = s1.now, !.since.clock = 0,
                                      !.fired = Append(@, "clock")], timeOk)
      ELSE s0

\* the body of if (bme.performReading()) { ... }
SampleOk(s, r) ==
  LET t == (r.temperature * TempScale) \div 100
      h == r.humidity
      p == (r.pressure * PresScale) \div 10000
      g == (r.gas_resistance * GasScale) \div 1000
      q == mapGasToPercent(g)
      f == updateForecast(s.pressureBaseline, p)
  IN  [s EXCEPT !.lastTemp = t, !.lastHum = h, !.lastPres = p, !.lastGas = g,
                !.iaq = q,
                !.leds = updateLedBar(q, s.now),
                !.pressureBaseline = f.pressureBaseline,
                !.weatherStatus = f.weatherStatus,
                !.presLog = Append(@, p),
                !.seeds = IF f.seeded THEN @ + 1 ELSE @,
                !.readResult = "ok"]

\* SampleStep clearing the cache when the read fails
SampleStepZeroOnFail(s, dSet, dRead, readOk, r) ==
  LET e == U32Sub(s.now, s.lastUpdate)
      s0 == [s EXCEPT !.elapsed.sample = e,
                      !.realElapsed.sample = s.since.sample]
  IN  IF Due(e, SAMPLE_INTERVAL)
      THEN LET s1 == Tick(s0, dSet)
               s2 == [s1 EXCEPT !.lastUpdate = s1.now, !.since.sample = 0,
                                !.fired = Append(@, "sample"),
                                !.reads = @ + 1]
               s3 == Tick(s2, dRead)
           IN  IF readOk THEN SampleOk(s3, r)
               ELSE [s3 EXCEPT !.readResult = "fail", !.lastTemp = 0,
                               !.lastHum = 0, !.lastPres = 0, !.lastGas = 0]
      ELSE s0

\* SampleStep reading a second time when the first read fails
SampleStepRetry(s, dSet, dRead, readOk, r) ==
  LET e == U32Sub(s.now, s.lastUpdate)
      s0 == [s EXCEPT !.elapsed.sample = e,
                      !.realElapsed.sample = s.since.sample]
  IN  IF Due(e, SAMPLE_INTERVAL)
      THEN LET s1 == Tick(s0, dSet)
               s2 == [s1 EXCEPT !.lastUpdate = s1.now, !.since.sample = 0,
                                !.fired = Append(@, "sample"),
                                !.reads = @ + 1]
               s3 == Tick(s2, dRead)
           IN  IF readOk THEN SampleOk(s3, r)
               ELSE [Tick(s3, dRead) EXCEPT !.readResult = "fail",
                                            !.reads = @ + 1]
      ELSE s0

\* SampleStep putting the status back to "Analysis..." when the read fails
SampleStepPendingOnFail(s, dSet, dRead, readOk, r) ==
  LET e == U32Sub(s.now, s.lastUpdate)
      s0 == [s EXCEPT !.elapsed.sample = e,
                      !.realElapsed.sample = s.since.sample]
  IN  IF Due(e, SAMPLE_INTERVAL)
      THEN LET s1 == Tick(s0, dSet)
               s2 == [s1 EXCEPT !.lastUpdate = s1.now, !.since.sample = 0,
                                !.fired = Append(@, "sample"),
                                !.reads = @ + 1]
               s3 == Tick(s2, dRead)
           IN  IF readOk THEN SampleOk(s3, r)
               ELSE [s3 EXCEPT !.readResult = "fail",
                               !.weatherStatus = "Analysis..."]
      ELSE s0

SampleStep(s, dSet, dRead, readOk, r) ==
  LET e == U32Sub(s.now, s.lastUpdate)
      s0 == [s EXCEPT !.elapsed.sample = e,
                      !.realElapsed.sample = s.since.sample]
  IN  IF Due(e, SAMPLE_INTERVAL)
      THEN LET s1 == Tick(s0, dSet)
               s2 == [s1 EXCEPT !.lastUpdate = s1.now, !.since.sample = 0,
                                !.fired = Append(@, "sample"),
                                !.reads = @ + 1]
               s3 == Tick(s2, dRead)
           IN  IF readOk THEN SampleOk(s3, r)
               ELSE [s3 EXCEPT !.readResult = "fail"]
      ELSE s0

\* drawGraph(): the range and the divisor of its map() calls
drawGraph(s) ==
  LET rng == graphRange(s.tempHistory)
  IN  [s EXCEPT !.minVal = rng.minVal, !.maxVal = rng.maxVal,
                !.mapRun = graphMapRun(rng)]

\* ChartStep without the lastTemp != 0 test
ChartStepAlwaysPush(s, dSet) ==
  LET e == U32Sub(s.now, s.lastGraphUpdate)
      s0 == [s EXCEPT !.elapsed.chart = e,
                      !.realElapsed.chart = s.since.chart]
  IN  IF Due(e, GRAPH_INTERVAL)
      THEN LET s1 == Tick(s0, dSet)
               s2 == [s1 EXCEPT !.lastGraphUpdate = s1.now, !.since.chart = 0,
                                !.fired = Append(@, "chart")]
           IN  drawGraph([s2 EXCEPT
                 !.tempHistory = addGraphPoint(@, s2.lastTemp),
                 !.pushed = Append(@, s2.lastTemp),
                 !.pushLog = Append(@, s2.lastTemp)])
      ELSE s0

\* ChartStep pushing whenever this iteration's read succeeded
ChartStepPushOnRead(s, dSet) ==
  LET e == U32Sub(s.now, s.lastGraphUpdate)
      s0 == [s EXCEPT !.elapsed.chart = e,
                      !.realElapsed.chart = s.since.chart]
  IN  IF Due(e, GRAPH_INTERVAL)
      THEN LET s1 == Tick(s0, dSet)
               s2 == [s1 EXCEPT !.lastGraphUpdate = s1.now, !.since.chart = 0,
                                !.fired = Append(@, "chart")]
           IN  IF s2.readResult = "ok"
               THEN drawGraph([s2 EXCEPT
                      !.tempHistory = addGraphPoint(@, s2.lastTemp),
                      !.pushed = Append(@, s2.lastTemp),
                      !.pushLog = Append(@, s2.lastTemp)])
               ELSE s2
      ELSE s0

ChartStep(s, dSet) ==
  LET e == U32Sub(s.now, s.lastGraphUpdate)
      s0 == [s EXCEPT !.elapsed.chart = e,
                      !.realElapsed.chart = s.since.chart]
  IN  IF Due(e, GRAPH_INTERVAL)
      THEN LET s1 == Tick(s0, dSet)
               s2 == [s1 EXCEPT !.lastGraphUpdate = s1.now, !.since.chart = 0,
                                !.fired = Append(@, "chart")]
           IN  IF s2.lastTemp # 0
               THEN drawGraph([s2 EXCEPT
                      !.tempHistory = addGraphPoint(@, s2.lastTemp),
                      !.pushed = Append(@, s2.lastTemp),
                      !.pushLog = Append(@, s2.lastTemp)])
               ELSE s2
      ELSE s0

runHeartbeat(s) == [s EXCEPT !.builtinLed = (U32Mod(s.now, 2000) < 100)]

\* loop() returning right after a failed sensor read
loopBodyReturnOnFail(s, dSet, dRead, timeOk, readOk, r) ==
  LET s2 == SampleStep(ClockStep(s, dSet, timeOk), dSet, dRead, readOk, r)
  IN  IF s2.readResult = "fail"
      THEN [s2 EXCEPT !.elapsed.chart = U32Sub(s2.now, s2.lastGraphUpdate)]
      ELSE runHeartbeat(ChartStep(s2, dSet))

\* one iteration of loop() from state s
loopBody(s, dSet, dRead, timeOk, readOk, r) ==
  runHeartbeat(
    ChartStep(
      SampleStep(
        ClockStep(s, dSet, timeOk),
        dSet, dRead, readOk, r),
      dSet))

----------------------------------------------------------------------------
(* The sketch as a state machine *)

ZeroHistory == [i \in 1..MAX_HISTORY |-> 0]

Init ==
  /\ phase = "boot"
  /\ wifi = FALSE
  /\ now = U32(0)
  /\ lastUpdate = U32(0)
  /\ lastGraphUpdate = U32(0)
  /\ lastClockUpdate = U32(0)
  /\ lastTemp = 0 /\ lastHum = 0 /\ lastPres = 0 /\ lastGas = 0
  /\ pressureBaseline = 0
  /\ weatherStatus = "Analysis..."
  /\ tempHistory = ZeroHistory
  /\ leds = [i \in 1..numLeds |-> FALSE]
  /\ builtinLed = FALSE
  /\ iaq = NoIaq
  /\ minVal = 0 /\ maxVal = 0 /\ mapRun = 0
  /\ polls = 0
  /\ fired = <<>>
  /\ elapsed = [clock |-> U32(0), sample |-> U32(0), chart |-> U32(0)]
  /\ readResult = "none"
  /\ reads = 0
  /\ pushed = <<>>
  /\ clockDrawn = FALSE
  /\ prevGas = 0 /\ prevIaq = NoIaq
  /\ pushLog = <<>>
  /\ presLog = <<>>
  /\ seeds = 0
  /\ retry = 0
  /\ sensor = "unknown"
  /\ since = [clock |-> 0, sample |-> 0, chart |-> 0]
  /\ realElapsed = [clock |-> 0, sample |-> 0, chart |-> 0]

\* setup(): the bounded WiFi wait, then the sensor initialisation
Setup ==
  /\ phase = "boot"
  /\ \E c \in ConnectAfter, bmeOk \in BOOLEAN :
       LET n == IF c < WIFI_RETRIES THEN c ELSE WIFI_RETRIES
       IN  /\ now' = U32Add(now, U32(n * WIFI_RETRY_DELAY))
           /\ since' = [t \in DOMAIN since |-> since[t] + n * WIFI_RETRY_DELAY]
           /\ retry' = n
           /\ wifi' = (c <= WIFI_RETRIES)
           /\ sensor' = IF bmeOk THEN "ok" ELSE "fail"
           /\ phase' = IF bmeOk THEN "loop" ELSE "halted"
           /\ tempHistory' = IF bmeOk THEN ZeroHistory ELSE tempHistory
  /\ UNCHANGED <<lastUpdate, lastGraphUpdate, lastClockUpdate,
                 lastTemp, lastHum, lastPres, lastGas,
                 pressureBaseline, weatherStatus, leds, builtinLed, iaq,
                 minVal, maxVal, mapRun, polls, fired, elapsed, readResult,
                 reads, pushed, clockDrawn, prevGas, prevIaq, pushLog, presLog, seeds,
                 realElapsed>>

Loop ==
  /\ phase = "loop"
  /\ polls < MaxPolls
  /\ \E idle \in IdleDelays, dSet \in SetDelays, dRead \in ReadDurations,
        timeOk \in BOOLEAN, readOk \in BOOLEAN :
       \E r \in (IF readOk THEN Readings ELSE {NoReading}) :
       \E s \in {loopBody(PollStart(St, idle), dSet, dRead, timeOk, readOk, r)} :
           /\ now' = s.now
           /\ lastUpdate' = s.lastUpdate
           /\ lastGraphUpdate' = s.lastGraphUpdate
           /\ lastClockUpdate' = s.lastClockUpdate
           /\ lastTemp' = s.lastTemp /\ lastHum' = s.lastHum
           /\ lastPres' = s.lastPres /\ lastGas' = s.lastGas
           /\ pressureBaseline' = s.pressureBaseline
           /\ weatherStatus' = s.weatherStatus
           /\ tempHistory' = s.tempHistory
           /\ leds' = s.leds
           /\ builtinLed' = s.builtinLed
           /\ iaq' = s.iaq
           /\ minVal' = s.minVal /\ maxVal' = s.maxVal /\ mapRun' = s.mapRun
           /\ fired' = s.fired
           /\ elapsed' = s.elapsed
           /\ readResult' = s.readResult
           /\ reads' = s.reads
           /\ pushed' = s.pushed
           /\ clockDrawn' = s.clockDrawn
           /\ pushLog' = s.pushLog
           /\ seeds' = s.seeds
           /\ presLog' = s.presLog
           /\ since' = s.since
           /\ realElapsed' = s.realElapsed
  /\ polls' = polls + 1
  /\ UNCHANGED <<phase, wifi, prevGas, prevIaq, retry, sensor>>

Next == Setup \/ Loop

Spec == Init /\ [][Next]_vars

----------------------------------------------------------------------------
(* mapGasToPercent on its own: one call after another *)

\* arguments of mapGasToPercent, in 1/GasScale kOhm
GasInputs ==
  {g * 5000 : g \in 0..32} \cup
  {0 - 1000, 4999, 5001, 6450, 7900, 148550, 149000, 149275, 149999, 150001}

MapGas ==
  /\ \E g \in GasInputs :
       /\ lastGas' = g
       /\ iaq' = mapGasToPercent(g)
  /\ prevGas' = lastGas
  /\ prevIaq' = iaq
  /\ UNCHANGED <<phase, wifi, now, lastUpdate, lastGraphUpdate, lastClockUpdate,
                 lastTemp, lastHum, lastPres, pressureBaseline, weatherStatus,
                 tempHistory, leds, builtinLed, minVal, maxVal, mapRun,
                 polls, fired, elapsed, readResult, reads, pushed, clockDrawn,
                 pushLog, presLog, seeds, retry, sensor, since, realElapsed>>

SpecGas == Init /\ [][MapGas]_vars

----------------------------------------------------------------------------
(* The history buffer on its own: addGraphPoint then drawGraph, as the chart *)
(* task calls them, on streams of temperatures                              *)

\* first temperature of a stream and its change per push, in 1/TempScale degree
StartTemps == {4300, 0, 0 - 400, 16000, 0 - 7000}
Drifts == {0, 2, 0 - 20}

NextTemps ==
  IF Len(pushLog) = 0 THEN StartTemps
  ELSE IF Len(pushLog) = 1 THEN {pushLog[1] + d : d \in Drifts}
  ELSE {pushLog[Len(pushLog)] + (pushLog[2] - pushLog[1])}

PushPoint ==
  /\ Len(pushLog) < MaxPushes
  /\ \E v \in NextTemps :
       \E s \in {drawGraph([St EXCEPT !.tempHistory = addGraphPoint(@, v)])} :
          /\ tempHistory' = s.tempHistory
          /\ minVal' = s.minVal /\ maxVal' = s.maxVal /\ mapRun' = s.mapRun
          /\ pushLog' = Append(pushLog, v)
          /\ pushed' = <<v>>
  /\ UNCHANGED <<phase, wifi, now, lastUpdate, lastGraphUpdate, lastClockUpdate,
                 lastTemp, lastHum, lastPres, lastGas, pressureBaseline,
                 weatherStatus, leds, builtinLed, iaq, polls, fired, elapsed,
                 readResult, reads, clockDrawn, prevGas, prevIaq, presLog, seeds, retry, sensor, since, realElapsed>>

SpecHistory == Init /\ [][PushPoint]_vars

----------------------------------------------------------------------------
(* setup() statement by statement: the WiFi wait round by round *)

\* the wait loop's condition without the retry limit
WifiWaitingUnbounded(status, n) == ~status

\* WiFi.status() != WL_CONNECTED && retry < 20
WifiWaiting(status, n) == ~status /\ n < WIFI_RETRIES

SetupRest ==
  <<lastUpdate, lastGraphUpdate, lastClockUpdate,
    lastTemp, lastHum, lastPres, lastGas,
    pressureBaseline, weatherStatus, leds, builtinLed, iaq,
    minVal, maxVal, mapRun, polls, fired, elapsed, readResult,
    reads, pushed, clockDrawn, prevGas, prevIaq, pushLog, presLog, seeds,
    realElapsed>>

\* the start of setup() up to int retry = 0; the network may already be
\* associated when the loop first asks
WifiBegin ==
  /\ phase = "boot"
  /\ phase' = "wifi"
  /\ retry' = 0
  /\ wifi' \in BOOLEAN
  /\ UNCHANGED <<now, since, sensor, tempHistory>>
  /\ UNCHANGED SetupRest

\* one round of the wait loop: delay(500); retry++; the status may change
\* during the delay
WifiWait ==
  /\ phase = "wifi"
  /\ WifiWaiting(wifi, retry)
  /\ now' = U32Add(now, U32(WIFI_RETRY_DELAY))
  /\ since' = [t \in DOMAIN since |-> since[t] + WIFI_RETRY_DELAY]
  /\ retry' = retry + 1
  /\ wifi' \in BOOLEAN
  /\ UNCHANGED <<phase, sensor, tempHistory>>
  /\ UNCHANGED SetupRest

\* the loop ends; the server is started or offline mode is reported
WifiDone ==
  /\ phase = "wifi"
  /\ ~WifiWaiting(wifi, retry)
  /\ phase' = "sensor"
  /\ UNCHANGED <<now, since, retry, wifi, sensor, tempHistory>>
  /\ UNCHANGED SetupRest

\* bme.begin(): while(1) when it fails, the rest of setup() when it succeeds
SensorInit ==
  /\ phase = "sensor"
  /\ \E bmeOk \in BOOLEAN :
       /\ sensor' = IF bmeOk THEN "ok" ELSE "fail"
       /\ phase' = IF bmeOk THEN "loop" ELSE "halted"
       /\ tempHistory' = IF bmeOk THEN ZeroHistory ELSE tempHistory
  /\ UNCHANGED <<now, since, retry, wifi>>
  /\ UNCHANGED SetupRest

SetupStep == WifiBegin \/ WifiWait \/ WifiDone \/ SensorInit

\* setup() is straight-line code around a loop whose delay(500) returns:
\* a statement that can run does run
SpecSetup == Init /\ [][SetupStep]_vars /\ WF_vars(SetupStep)

----------------------------------------------------------------------------
(* loop() around the moment millis() wraps, after 2^32 ms of running *)

\* 2^32 - m as a value of millis(), for m >= 1
BeforeWrap(m) == <<Limb - 1 - ((m - 1) \div Limb), Limb - 1 - ((m - 1) % Limb)>>

\* milliseconds left until the wrap
WrapLeads == {1, 500, 2500}

\* how long ago each task last ran
WrapAges ==
  {[clock |-> 100, sample |-> 2600, chart |-> 299900],
   [clock |-> 900, sample |-> 100, chart |-> 100]}

\* a device that has been in loop() for almost 2^32 ms, started offline and
\* with no sensor read answered so far; polls counts from here
InitWrap ==
  /\ phase = "loop"
  /\ wifi = FALSE
  /\ retry = WIFI_RETRIES
  /\ sensor = "ok"
  /\ \E lead \in WrapLeads, age \in WrapAges :
       /\ now = BeforeWrap(lead)
       /\ lastClockUpdate = BeforeWrap(lead + age.clock)
       /\ lastUpdate = BeforeWrap(lead + age.sample)
       /\ lastGraphUpdate = BeforeWrap(lead + age.chart)
       /\ since = age
  /\ realElapsed = [clock |-> 0, sample |-> 0, chart |-> 0]
  /\ lastTemp = 0 /\ lastHum = 0 /\ lastPres = 0 /\ lastGas = 0
  /\ pressureBaseline = 0
  /\ weatherStatus = "Analysis..."
  /\ tempHistory = ZeroHistory
  /\ leds = [i \in 1..numLeds |-> FALSE]
  /\ builtinLed = FALSE
  /\ iaq = NoIaq
  /\ minVal = 0 /\ maxVal = 0 /\ mapRun = 0
  /\ polls = 0
  /\ fired = <<>>
  /\ elapsed = [clock |-> U32(0), sample |-> U32(0), chart |-> U32(0)]
  /\ readResult = "none"
  /\ reads = 0
  /\ pushed = <<>>
  /\ clockDrawn = FALSE
  /\ prevGas = 0 /\ prevIaq = NoIaq
  /\ pushLog = <<>>
  /\ presLog = <<>>
  /\ seeds = 0

SpecWrap == InitWrap /\ [][Loop]_vars

----------------------------------------------------------------------------
(* updateForecast on its own: a stream of successful samples *)

\* pressures of the stream, in 1/PresScale hPa: 1000.0, 1000.2, 1000.21,
\* 1000.5, 1001.0, 999.8, 999.7 and the sensor's limits 300 and 1100
Pressures ==
  {10000000, 10002000, 10002100, 10005000, 10010000, 9998000, 9997000,
   3000000, 11000000}

Forecast ==
  /\ Len(presLog) < MaxSamples
  /\ \E p \in Pressures :
       \E f \in {updateForecast(pressureBaseline, p)} :
          /\ lastPres' = p
          /\ pressureBaseline' = f.pressureBaseline
          /\ weatherStatus' = f.weatherStatus
          /\ presLog' = Append(presLog, p)
          /\ seeds' = IF f.seeded THEN seeds + 1 ELSE seeds
  /\ UNCHANGED <<phase, wifi, now, lastUpdate, lastGraphUpdate, lastClockUpdate,
                 lastTemp, lastHum, lastGas, tempHistory, leds, builtinLed, iaq,
                 minVal, maxVal, mapRun, polls, fired, elapsed, readResult,
                 reads, pushed, clockDrawn, prevGas, prevIaq, pushLog, retry, sensor, since, realElapsed>>

SpecForecast == Init /\ [][Forecast]_vars

----------------------------------------------------------------------------
(* updateLedBar on its own: calls with any percent at any phase of millis() *)

LedPercents == (0 - 5)..105

\* millis() at the call: both halves of the 400 ms blink period and its edges
LedTimes == {U32(0), U32(199), U32(200), U32(399), U32(400)}

LedBar ==
  /\ \E pct \in LedPercents, m \in LedTimes :
       /\ iaq' = pct
       /\ now' = m
       /\ leds' = updateLedBar(pct, m)
  /\ UNCHANGED <<phase, wifi, lastUpdate, lastGraphUpdate, lastClockUpdate,
                 lastTemp, lastHum, lastPres, lastGas, pressureBaseline,
                 weatherStatus, tempHistory, builtinLed,
                 minVal, maxVal, mapRun, polls, fired, elapsed, readResult,
                 reads, pushed, clockDrawn, prevGas, prevIaq, pushLog,
                 presLog, seeds, retry, sensor, since, realElapsed>>

SpecLed == Init /\ [][LedBar]_vars

----------------------------------------------------------------------------
(* Vocabulary of the properties *)

Period(t) ==
  CASE t = "clock" -> CLOCK_INTERVAL
    [] t = "sample" -> SAMPLE_INTERVAL
    [] t = "chart" -> GRAPH_INTERVAL

LastFire(t) ==
  CASE t = "clock" -> lastClockUpdate
    [] t = "sample" -> lastUpdate
    [] t = "chart" -> lastGraphUpdate

Tasks == {"clock", "sample", "chart"}

\* how many times task t ran in the last iteration
Fires(t) == Cardinality({i \in 1..Len(fired) : fired[i] = t})

ElapsedExceeds(t) == U32Gt(elapsed[t], U32(Period(t)))

ElapsedAtLeast(t) == U32Ge(elapsed[t], U32(Period(t)))

\* the step is an iteration of loop()
IsPoll == polls' = polls + 1

SentinelFree == {i \in 1..MAX_HISTORY : tempHistory[i] # 0}

HistMin == CHOOSE v \in {tempHistory[i] : i \in SentinelFree} :
             \A i \in SentinelFree : v <= tempHistory[i]

HistMax == CHOOSE v \in {tempHistory[i] : i \in SentinelFree} :
             \A i \in SentinelFree : v >= tempHistory[i]

ClampGas(g) ==
  IF g > 150 * GasScale THEN 150 * GasScale
  ELSE IF g < 5 * GasScale THEN 5 * GasScale ELSE g

----------------------------------------------------------------------------
(* C1 *)

\* C1 as stated: in every iteration each task runs exactly once when its
\* elapsed time is >= its period and not at all when it is smaller.
C1_FiresWhenElapsedAtLeastPeriod ==
  polls > 0 =>
    \A t \in Tasks : Fires(t) = IF ElapsedAtLeast(t) THEN 1 ELSE 0

\* C1 amended: in every iteration each task runs exactly once when its elapsed
\* time is strictly greater than its period and not at all when it is smaller
\* or equal.
C1_FiresWhenElapsedExceedsPeriod ==
  polls > 0 =>
    \A t \in Tasks : Fires(t) = IF ElapsedExceeds(t) THEN 1 ELSE 0

\* an iteration in which the clock task ran and the sample task, polled with
\* elapsed time exactly its period, did not
C1_Witness ==
  /\ polls > 0
  /\ Fires("clock") = 1
  /\ elapsed["sample"] = U32(SAMPLE_INTERVAL)
  /\ Fires("sample") = 0

----------------------------------------------------------------------------
(* C2 *)

\* C2: a task that runs has its last fire time set to the millis() read at
\* that moment (the time of its check plus the few milliseconds to the
\* assignment), never to the old time plus one period; so whatever the stall
\* it runs once and is not due again when the iteration ends.
C2_NoCatchUp ==
  [][IsPoll =>
      \A t \in Tasks :
        Fires(t)' = 1 =>
          /\ \E d \in SetDelays :
               LastFire(t)' = U32Add(U32Add(LastFire(t), elapsed'[t]), U32(d))
          /\ ~U32Gt(U32Sub(now', LastFire(t)'), U32(Period(t)))]_vars

\* the clock task ran once after a stall of at least ten periods and is not
\* due at the end of that iteration
C2_Witness ==
  /\ polls > 0
  /\ U32Ge(elapsed["clock"], U32(10 * CLOCK_INTERVAL))
  /\ Fires("clock") = 1
  /\ ~U32Gt(U32Sub(now, lastClockUpdate), U32(CLOCK_INTERVAL))

----------------------------------------------------------------------------
(* C3 *)

\* C3: the tasks that ran in an iteration are exactly the due ones, in the
\* order clock, sample, chart, whether or not the sensor read or the time
\* lookup of that iteration failed.
C3_DueTasksFireInOrder ==
  polls > 0 => fired = SelectSeq(TaskOrder, ElapsedExceeds)

\* all three tasks ran in one iteration whose sensor read and time lookup
\* both failed
C3_Witness ==
  /\ fired = TaskOrder
  /\ readResult = "fail"
  /\ ~clockDrawn

----------------------------------------------------------------------------
(* C4 *)

\* C4: an iteration whose sensor read fails leaves the cached metrics, the
\* forecast state and the LED bar as they were, and loop() goes on.
C4_FailedReadKeepsState ==
  [][IsPoll /\ readResult' = "fail" =>
       /\ lastTemp' = lastTemp /\ lastHum' = lastHum
       /\ lastPres' = lastPres /\ lastGas' = lastGas
       /\ pressureBaseline' = pressureBaseline
       /\ weatherStatus' = weatherStatus
       /\ leds' = leds
       /\ phase' = "loop"]_vars

\* a failed read after an earlier successful one: the cache is still filled
C4_Witness ==
  /\ readResult = "fail"
  /\ lastTemp # 0 /\ lastPres # 0 /\ lastGas # 0
  /\ weatherStatus # "Analysis..."

----------------------------------------------------------------------------
(* C5 *)

\* C5 as stated: nothing is pushed into tempHistory in an iteration whose
\* sensor read failed.
C5_NoPushOnFailedRead ==
  readResult = "fail" => pushed = <<>>

\* C5 amended: in an iteration whose sensor read failed, tempHistory changes
\* only if the chart task also ran with a non-zero cached temperature, and
\* then by one push of that cached temperature; otherwise it is unchanged.
C5_FailedReadPushesOnlyViaChart ==
  [][IsPoll /\ readResult' = "fail" =>
       IF Fires("chart")' = 1 /\ lastTemp # 0
       THEN /\ pushed' = <<lastTemp>>
            /\ tempHistory'[MAX_HISTORY] = lastTemp
            /\ \A i \in 1..(MAX_HISTORY - 1) : tempHistory'[i] = tempHistory[i + 1]
       ELSE /\ pushed' = <<>>
            /\ tempHistory' = tempHistory]_vars

\* the read failed and the chart task pushed the cached temperature
C5_Witness ==
  /\ readResult = "fail"
  /\ pushed = <<lastTemp>>
  /\ tempHistory[MAX_HISTORY] = lastTemp

----------------------------------------------------------------------------
(* C6 *)

\* C6: an iteration reads the sensor once if the sample task runs and not at
\* all otherwise, failed or not; the sample task runs only when more than
\* SAMPLE_INTERVAL has passed since lastUpdate, and lastUpdate is moved to the
\* time of the attempt even when the read fails.
C6_OneReadPerSampleTick ==
  [][IsPoll =>
       /\ reads' = Fires("sample")'
       /\ reads' \in {0, 1}
       /\ (readResult' # "none") = (reads' = 1)
       /\ reads' = 1 =>
            /\ U32Gt(elapsed'["sample"], U32(SAMPLE_INTERVAL))
            /\ \E d \in SetDelays :
                 lastUpdate' = U32Add(U32Add(lastUpdate, elapsed'["sample"]), U32(d))
            /\ ~U32Gt(U32Sub(now', lastUpdate'), U32(SAMPLE_INTERVAL))
       /\ reads' = 0 => lastUpdate' = lastUpdate]_vars

\* a sample tick whose single read failed
C6_Witness ==
  /\ readResult = "fail"
  /\ reads = 1
  /\ Fires("sample") = 1

----------------------------------------------------------------------------
(* C7 *)

\* C7: the result of mapGasToPercent is within 0..100, is 100 for arguments
\* <= 5 kOhm and 0 for arguments >= 150 kOhm, and of two arguments within
\* [5, 150] the larger never gives the larger result.
C7_PercentRangeAndMonotone ==
  iaq # NoIaq =>
    /\ iaq \in 0..100
    /\ lastGas <= 5 * GasScale => iaq = 100
    /\ lastGas >= 150 * GasScale => iaq = 0
    /\ (/\ prevIaq # NoIaq
        /\ 5 * GasScale <= prevGas /\ prevGas <= lastGas
        /\ lastGas <= 150 * GasScale) => prevIaq >= iaq

\* two calls with arguments inside (5, 150) whose results differ
C7_Witness ==
  /\ 5 * GasScale < prevGas /\ prevGas < lastGas /\ lastGas < 150 * GasScale
  /\ prevIaq # NoIaq
  /\ prevIaq > iaq
  /\ iaq > 0 /\ prevIaq < 100

----------------------------------------------------------------------------
(* C8 *)

\* C8 as stated: the result is (150 - clampedGas) * 100 / 145 rounded to the
\* nearest integer.
C8_PercentIsRounded ==
  LET n == (150 * GasScale - ClampGas(lastGas)) * 100
      d == 145 * GasScale
  IN  iaq # NoIaq =>
        /\ 2 * iaq * d <= 2 * n + d
        /\ 2 * n + d < 2 * (iaq + 1) * d

\* C8 amended: the result is (150 - clampedGas) * 100 / 145 with the
\* fractional part dropped (rounded down).
C8_PercentIsTruncated ==
  LET n == (150 * GasScale - ClampGas(lastGas)) * 100
      d == 145 * GasScale
  IN  iaq # NoIaq =>
        /\ iaq * d <= n
        /\ n < (iaq + 1) * d

\* 149 kOhm: the quotient is 0.69, the result 0
C8_Witness ==
  /\ lastGas = 149 * GasScale
  /\ iaq = 0

----------------------------------------------------------------------------
(* C9 *)

\* C9: tempHistory always has MAX_HISTORY entries and, after k pushes, its
\* last min(k, MAX_HISTORY) entries are the last min(k, MAX_HISTORY) pushed
\* values, oldest first.
C9_HistoryIsShiftBuffer ==
  LET k == Len(pushLog)
      m == IF k < MAX_HISTORY THEN k ELSE MAX_HISTORY
  IN  /\ DOMAIN tempHistory = 1..MAX_HISTORY
      /\ \A j \in 1..m : tempHistory[MAX_HISTORY - m + j] = pushLog[k - m + j]

\* more pushes than the buffer holds: the oldest values are gone
C9_Witness ==
  /\ Len(pushLog) = MAX_HISTORY + 2
  /\ tempHistory[1] = pushLog[3]
  /\ tempHistory[1] # pushLog[1]
  /\ tempHistory[MAX_HISTORY] = pushLog[MAX_HISTORY + 2]

----------------------------------------------------------------------------
(* C10 *)

\* C10: once drawGraph has run, maxVal - minVal is 2 degrees (centred on the
\* midpoint of the non-sentinel entries) when there is no non-sentinel entry
\* or they span less than 1 degree, and otherwise minVal and maxVal are the
\* smallest entry - 0.2 and the largest + 0.2; the range and the divisor of
\* the map() calls are never zero.
C10_RangeNeverDegenerate ==
  pushLog # <<>> =>
    /\ maxVal - minVal > 0
    /\ mapRun > 0
    /\ IF SentinelFree = {}
       THEN maxVal - minVal = 2 * TempScale
       ELSE IF HistMax - HistMin < TempScale
            THEN /\ maxVal - minVal = 2 * TempScale
                 /\ maxVal + minVal = HistMax + HistMin
            ELSE /\ minVal = HistMin - (TempScale \div 5)
                 /\ maxVal = HistMax + (TempScale \div 5)

\* drawGraph ran on a buffer that holds nothing but sentinels
C10_Witness ==
  /\ pushLog # <<>>
  /\ SentinelFree = {}
  /\ maxVal - minVal = 2 * TempScale

----------------------------------------------------------------------------
(* C11 *)

Threshold == (2 * PresScale) \div 10

\* the status updateForecast gives for the difference diff
Classify(diff) ==
  IF diff > Threshold THEN "Growing (Sun)"
  ELSE IF diff < 0 - Threshold THEN "Falling (Rain)"
  ELSE "Stable"

\* C11: every sample is classified by diff = p - (the baseline before this
\* sample's update, which is p itself when the baseline was still 0):
\* Growing above +0.2, Falling below -0.2, Stable otherwise, +-0.2 included;
\* the baseline then becomes 0.95 * that baseline + 0.05 * p, once.
C11_ClassifiesAgainstOldBaseline ==
  [][presLog' # presLog =>
       LET p == lastPres'
           b0 == IF pressureBaseline = 0 THEN p ELSE pressureBaseline
       IN  /\ presLog' = Append(presLog, p)
           /\ weatherStatus' = Classify(p - b0)
           /\ 100 * pressureBaseline' <= 95 * b0 + 5 * p + 50
           /\ 95 * b0 + 5 * p + 50 < 100 * pressureBaseline' + 100]_vars

\* the second step of the stream 1000.0, 1000.5: compared with 1000.0 it is
\* Growing, and the baseline has become 1000.025
C11_Witness ==
  /\ presLog = <<10000000, 10005000>>
  /\ weatherStatus = "Growing (Sun)"
  /\ pressureBaseline = 10000250

----------------------------------------------------------------------------
(* C12 *)

\* C12: after the first successful sample the status is "Stable", whatever
\* the pressure was.
C12_FirstSampleIsStable == Len(presLog) = 1 => weatherStatus = "Stable"

\* a first sample of 1100 hPa, far from 0, has been classified Stable
C12_Witness ==
  /\ presLog = <<11000000>>
  /\ weatherStatus = "Stable"
  /\ pressureBaseline = 11000000

----------------------------------------------------------------------------
(* C13 *)

Pending == "Analysis..."

Classes == {"Growing (Sun)", "Falling (Rain)", "Stable"}

----------------------------------------------------------------------------
(* C19 *)

RECURSIVE SeqMin(_)
SeqMin(q) ==
  IF Len(q) = 1 THEN q[1]
  ELSE LET m == SeqMin(Tail(q)) IN IF q[1] < m THEN q[1] ELSE m

RECURSIVE SeqMax(_)
SeqMax(q) ==
  IF Len(q) = 1 THEN q[1]
  ELSE LET m == SeqMax(Tail(q)) IN IF q[1] > m THEN q[1] ELSE m

\* C19: once a sample has been taken the baseline lies between the smallest
\* and the largest pressure seen so far, so it is not 0 and pressureBaseline = p
\* has been taken exactly once.
C19_BaselineWithinObserved ==
  presLog # <<>> =>
    /\ SeqMin(presLog) <= pressureBaseline
    /\ pressureBaseline <= SeqMax(presLog)
    /\ pressureBaseline # 0
    /\ seeds = 1

\* three samples 300, 1100, 1000.5 hPa: the baseline 358.0275 went up from
\* the seed and is strictly inside the observed range
C19_Witness ==
  /\ presLog = <<3000000, 11000000, 10005000>>
  /\ seeds = 1
  /\ pressureBaseline > 3000000
  /\ pressureBaseline < 10005000

----------------------------------------------------------------------------
(* C14 *)

\* the LEDs that are on, LED 1 being ledPins[0]
Lit == {i \in 1..numLeds : leds[i]}

Min(a, b) == IF a < b THEN a ELSE b

\* C14: for a percent of 0..90 the LEDs that are on are the first
\* min(8, floor(percent * 9 / 100)) and no others; a percent below 0 is shown
\* as 0 and a percent above 100 as 100.
C14_ProportionalBar ==
  /\ (iaq >= 0 /\ iaq <= 90) => Lit = 1..Min(numLeds, (iaq * (numLeds + 1)) \div 100)
  /\ iaq < 0 => Lit = {}
  /\ iaq > 100 => Lit = (IF U32Mod(now, 400) < 200 THEN {} ELSE 1..numLeds)
  /\ Cardinality(Lit) <= numLeds

\* percent 50: LEDs 1..4 are on, 5..8 are off
C14_Witness ==
  /\ iaq = 50
  /\ Lit = 1..4

----------------------------------------------------------------------------
(* C15 *)

\* the alarm pattern at millis() = m
BlinkAt(m) == [i \in 1..numLeds |-> ~(U32Mod(m, 400) < 200)]

\* the instants of an iteration's end at which its LED write can have
\* happened: up to two assignments of millis() earlier
PollInstants == {U32Sub(now', U32(a + b)) : a \in SetDelays, b \in SetDelays}

\* C15: after every iteration of loop() with a percent above 90 the LEDs
\* show the alarm pattern of that iteration's time: all off in the first
\* 200 ms of each 400 ms, all on in the second; with a percent of at most 90
\* they show the proportional bar.
C15_BlinkFollowsEveryPoll ==
  [][(IsPoll /\ iaq' # NoIaq) =>
       /\ iaq' > 90 => \E m \in PollInstants : leds' = BlinkAt(m)
       /\ iaq' <= 90 =>
            Lit' = 1..Min(numLeds, (iaq' * (numLeds + 1)) \div 100)]_vars

----------------------------------------------------------------------------
(* C18 *)

\* C18: 0 is never pushed: nothing is pushed before the first successful
\* read, a chart tick that finds lastTemp = 0 pushes nothing, and in
\* tempHistory every entry after a non-zero entry is non-zero.
C18_SentinelNeverPushed ==
  /\ \A i \in 1..Len(pushLog) : pushLog[i] # 0
  /\ presLog = <<>> => pushLog = <<>>
  /\ (Fires("chart") = 1 /\ lastTemp = 0) => pushed = <<>>
  /\ (Fires("chart") = 1 /\ lastTemp # 0) => pushed = <<lastTemp>>
  /\ \A i \in 1..(MAX_HISTORY - 1) : tempHistory[i] # 0 => tempHistory[i + 1] # 0
  /\ \A i \in 1..Len(pushLog) :
       tempHistory[MAX_HISTORY - Len(pushLog) + i] = pushLog[i]

\* a chart tick right after a successful read of 0.00 degrees pushed
\* nothing, and the point pushed one tick earlier is still the last entry
C18_Witness ==
  /\ Fires("chart") = 1
  /\ readResult = "ok"
  /\ lastTemp = 0
  /\ pushed = <<>>
  /\ Len(pushLog) = 1
  /\ tempHistory[MAX_HISTORY] = pushLog[1]
  /\ tempHistory[MAX_HISTORY - 1] = 0

----------------------------------------------------------------------------
(* C16 *)

\* C16: the WiFi wait makes at most 20 rounds and ends whether or not the
\* network connects; setup() then reaches bme.begin(), and from there loop()
\* when the sensor answers and while(1) when it does not, and while(1) for
\* no other reason.
C16_BoundedWifiWait ==
  /\ [](retry <= WIFI_RETRIES)
  /\ [](phase = "halted" <=> sensor = "fail")
  /\ [](phase = "loop" <=> sensor = "ok")
  /\ [](phase = "sensor" => (wifi \/ retry = WIFI_RETRIES))
  /\ <>(phase \notin {"boot", "wifi"})
  /\ <>(sensor # "unknown")

\* loop() has been reached offline, after all 20 rounds of the wait
C16_Witness ==
  /\ phase = "loop"
  /\ ~wifi
  /\ retry = WIFI_RETRIES
  /\ now = U32(WIFI_RETRIES * WIFI_RETRY_DELAY)

----------------------------------------------------------------------------
(* C17 *)

\* C17: in every iteration, also one during which millis() wraps to 0, each
\* task's millis() - last is the time that really passed since its last run
\* (modulo 2^32), and the task runs exactly when that time exceeds its period.
C17_ElapsedSurvivesWrap ==
  polls > 0 =>
    \A t \in Tasks :
       /\ elapsed[t] = U32(realElapsed[t])
       /\ (Fires(t) = 1) <=> (realElapsed[t] > Period(t))

\* millis() has wrapped; the sample task, last run before the wrap, ran;
\* the chart task, whose last run is a larger number than millis(), did not
C17_Witness ==
  /\ polls > 0
  /\ now[1] = 0
  /\ Fires("sample") = 1
  /\ realElapsed["sample"] > now[2]
  /\ Fires("chart") = 0
  /\ lastGraphUpdate[1] = Limb - 1

====
